---- MODULE Spec2Model ----
(***************************************************************************)
(* The AND/OR tree planner of src/orchestration/symbolic/planner.py:       *)
(* TaskNode (add_child, get_ancestors, validate_dag), ANDNode / ORNode     *)
(* decompose, and PlanningGraph (generate_plan, _ao_star_search,           *)
(* _evaluate_option).                                                      *)
(*                                                                         *)
(* Risks are kept in tenths (0.7 is 7): the code only compares them and    *)
(* takes their maximum.  A dict whose iteration order the code depends on  *)
(* (node.resources) is a sequence of <<name, amount>> pairs; a dict that   *)
(* is only looked up (the pool, resource_usage) is a function.             *)
(***************************************************************************)
EXTENDS Integers, Sequences, FiniteSets, TLC

VARIABLES
    scene,            \* which program drives the classes: "graph", "plan", "main"
                      \* or "eval"
    has_vr,           \* hasattr(child, "validate_resources"): FALSE for the classes as
                      \* planner.py defines them
    kind,             \* node -> "AND" | "OR" | "ATOMIC"  (the node's class)
    preconditions,    \* node -> sequence of nodes        (TaskNode.preconditions)
    resources,        \* node -> sequence of <<name, amount>> (TaskNode.resources)
    cost,             \* node -> TaskNode.cost
    risk,             \* node -> TaskNode.risk, in tenths
    state,            \* node -> TaskNode._state
    children,         \* node -> sequence of nodes        (TaskNode._children)
    pool,             \* the caller's resource dict
    last_call,        \* the last call made on a node and how it ended
    pc,               \* "idle" | "loop" | "options" | "done"
    root,             \* PlanningGraph.root
    resource_pool,    \* PlanningGraph.resource_pool
    risk_threshold,   \* PlanningGraph.risk_threshold, in tenths
    heap,             \* _ao_star_search: heap, a heapq list of <<cost, node>>
    best_plan,        \* _ao_star_search: best_plan
    current_cost,     \* _ao_star_search: current_cost
    current_node,     \* _ao_star_search: current_node
    decompositions,   \* _ao_star_search: decompositions
    oi,               \* index of the next option of the for loop
    outcome,          \* how generate_plan ended: [raised, result]
    runs,             \* generate_plan calls made on the planner
    first,            \* how the first generate_plan call ended
    caught,           \* ResourceConflictErrors the for loop caught in this run
    evals             \* the direct _evaluate_option calls: [option, raised, plan]

vars == <<scene, has_vr, kind, preconditions, resources, cost, risk, state,
          children, pool, last_call, pc, root, resource_pool, risk_threshold,
          heap, best_plan, current_cost, current_node, decompositions, oi,
          outcome, runs, first, caught, evals>>

nodeVars == <<scene, has_vr, kind, preconditions, resources, cost, risk, state, pool>>
runVars == <<pc, root, resource_pool, risk_threshold, heap, best_plan,
             current_cost, current_node, decompositions, oi, outcome,
             runs, first, caught, evals>>

----------------------------------------------------------------------------
(* Bounds *)

\* add_child calls that append are made while fewer than MaxEdges edges exist
MaxEdges == 3

\* direct _evaluate_option calls made on one planner
MaxEvals == 2

----------------------------------------------------------------------------
(* Values *)

None == [none |-> TRUE]

NoNode == "-"

EmptyDict == [r \in {} |-> 0]

\* dict.get(res, 0)
DictGet(d, res) == IF res \in DOMAIN d THEN d[res] ELSE 0

\* d[res] = v
DictSet(d, res, v) == [r \in (DOMAIN d) \cup {res} |-> IF r = res THEN v ELSE d[r]]

\* risk_threshold: float = 0.7, in tenths
DefaultRiskThreshold == 7

Nodes == DOMAIN kind

RECURSIVE SumLen(_, _)
SumLen(f, S) ==
    IF S = {} THEN 0
    ELSE LET n == CHOOSE x \in S : TRUE IN Len(f[n]) + SumLen(f, S \ {n})

\* number of entries of all the _children lists
Edges == SumLen(children, Nodes)

----------------------------------------------------------------------------
(* TaskNode *)

\* TaskNode.is_atomic, as the three classes override it
is_atomic(node) == kind[node] = "ATOMIC"

RECURSIVE AncestorsLoop(_, _)
\* the while loop of get_ancestors: pop the last entry of the stack, walk its
\* preconditions in order
AncestorsLoop(stack, ancestors) ==
    IF stack = <<>> THEN ancestors
    ELSE LET current == stack[Len(stack)]
             rest == SubSeq(stack, 1, Len(stack) - 1)
             pre == preconditions[current]
             fresh == SelectSeq(pre, LAMBDA p : p \notin ancestors)
             \* a parent listed twice is added and pushed once
             RECURSIVE Dedup(_, _)
             Dedup(s, seen) ==
                 IF s = <<>> THEN <<>>
                 ELSE IF s[1] \in seen THEN Dedup(Tail(s), seen)
                 ELSE <<s[1]>> \o Dedup(Tail(s), seen \cup {s[1]})
             pushed == Dedup(fresh, {})
         IN AncestorsLoop(rest \o pushed,
                          ancestors \cup {pushed[i] : i \in 1..Len(pushed)})

get_ancestors(self) == AncestorsLoop(<<self>>, {})

\* a bug: only the node's own preconditions are looked at
AddChildRaisesDirect(self, node) ==
    \E i \in 1..Len(preconditions[self]) : preconditions[self][i] = node

\* the guard of add_child: node in self.get_ancestors()
AddChildRaises(self, node) == node \in get_ancestors(self)

RECURSIVE ValidateLoopVisitedFirst(_, _)
\* a bug: the visited set is looked up before the path
ValidateLoopVisitedFirst(stack, visited) ==
    IF stack = <<>> THEN FALSE
    ELSE LET top == stack[Len(stack)]
             rest == SubSeq(stack, 1, Len(stack) - 1)
             node == top.node
             path == top.path
         IN IF node \in visited THEN ValidateLoopVisitedFirst(rest, visited)
            ELSE IF node \in path THEN TRUE
                 ELSE LET new_path == path \cup {node}
                          ch == children[node]
                      IN ValidateLoopVisitedFirst(
                             rest \o [i \in 1..Len(ch) |-> [node |-> ch[i], path |-> new_path]],
                             visited \cup {node})

RECURSIVE ValidateLoopVisitedRaises(_, _)
\* a bug: a node met a second time is reported as a cycle
ValidateLoopVisitedRaises(stack, visited) ==
    IF stack = <<>> THEN FALSE
    ELSE LET top == stack[Len(stack)]
             rest == SubSeq(stack, 1, Len(stack) - 1)
             node == top.node
             path == top.path
         IN IF node \in path \/ node \in visited THEN TRUE
            ELSE LET new_path == path \cup {node}
                     ch == children[node]
                 IN ValidateLoopVisitedRaises(
                        rest \o [i \in 1..Len(ch) |-> [node |-> ch[i], path |-> new_path]],
                        visited \cup {node})

RECURSIVE ValidateLoop(_, _)
\* the while loop of validate_dag; the stack holds [node, path]; TRUE when it
\* raises CircularDependencyError
ValidateLoop(stack, visited) ==
    IF stack = <<>> THEN FALSE
    ELSE LET top == stack[Len(stack)]
             rest == SubSeq(stack, 1, Len(stack) - 1)
             node == top.node
             path == top.path
         IN IF node \in path THEN TRUE
            ELSE IF node \notin visited
                 THEN LET new_path == path \cup {node}
                          ch == children[node]
                      IN ValidateLoop(
                             rest \o [i \in 1..Len(ch) |-> [node |-> ch[i], path |-> new_path]],
                             visited \cup {node})
                 ELSE ValidateLoop(rest, visited)

\* a bug: the graph is not validated
validate_dag_skipped(self) == FALSE

\* TRUE when self.validate_dag() raises CircularDependencyError
validate_dag(self) == ValidateLoop(<<[node |-> self, path |-> {}]>>, {})

----------------------------------------------------------------------------
(* decompose *)

\* child.validate_resources(available_resources): TRUE when it raises
\* ResourceConflictError.  decompose calls the method (lines 98 and 115) but
\* no class of planner.py defines it: where has_vr holds it is the check the
\* specification describes, a required quantity above the pool's capacity
\* (0 for a resource the pool does not name)
validate_resources(child, available_resources) ==
    \E i \in 1..Len(resources[child]) :
        resources[child][i][2] > DictGet(available_resources, resources[child][i][1])

\* the children that pass the try block of the decompose loops
PassingChildren(self, available_resources) ==
    SelectSeq(children[self], LAMBDA c : ~validate_resources(c, available_resources))

\* the first iteration of either loop looks the method up on the child
DecomposeRaises(self) ==
    IF children[self] # <<>> /\ ~has_vr THEN "AttributeError" ELSE "none"

\* ANDNode.decompose: [options] if options else []
ANDNode_decompose(self, available_resources) ==
    LET options == PassingChildren(self, available_resources)
    IN IF options # <<>> THEN <<options>> ELSE <<>>

\* ORNode.decompose: one [child] per passing child
ORNode_decompose(self, available_resources) ==
    LET passing == PassingChildren(self, available_resources)
    IN [i \in 1..Len(passing) |-> <<passing[i]>>]

decompose(self, available_resources) ==
    IF kind[self] = "AND" THEN ANDNode_decompose(self, available_resources)
    ELSE ORNode_decompose(self, available_resources)

----------------------------------------------------------------------------
(* _evaluate_option *)

\* a bug: required_resources[res] = amount
RequiredOverwritten(required_resources, res, amount) == amount

\* required_resources.get(res, 0) + amount
Required(required_resources, res, amount) == DictGet(required_resources, res) + amount

RECURSIVE EvalItems(_, _, _)
\* the inner loop over node.resources.items(), from item i on
EvalItems(items, i, required_resources) ==
    IF i > Len(items) THEN [raised |-> "none", required_resources |-> required_resources]
    ELSE LET res == items[i][1]
             amount == items[i][2]
             sum == Required(required_resources, res, amount)
             req == DictSet(required_resources, res, sum)
         IN IF sum > DictGet(resource_pool, res)
            THEN \* the message reads self.resource_pool[res]
                 [raised |-> IF res \in DOMAIN resource_pool
                             THEN "ResourceConflictError" ELSE "KeyError",
                  required_resources |-> req]
            ELSE EvalItems(items, i + 1, req)

\* a bug: total_cost -= node.cost, an option costs less than nothing
AddCostSubtracted(total_cost, node) == total_cost - cost[node]

\* a bug: total_cost = node.cost
AddCostAssigned(total_cost, node) == cost[node]

\* total_cost += node.cost
AddCost(total_cost, node) == total_cost + cost[node]

\* a bug: total_risk += node.risk
MaxRiskSummed(total_risk, node) == total_risk + risk[node]

\* a bug: total_risk = node.risk
MaxRiskLast(total_risk, node) == risk[node]

\* total_risk = max(total_risk, node.risk)
MaxRisk(total_risk, node) == IF risk[node] > total_risk THEN risk[node] ELSE total_risk

RECURSIVE EvalNodes(_, _, _, _, _)
\* the outer loop over nodes, from node k on
EvalNodes(option, k, required_resources, total_cost, total_risk) ==
    IF k > Len(option)
    THEN [raised |-> "none",
          plan |-> [sequence |-> option, resource_usage |-> required_resources,
                    cost |-> total_cost, risk_factor |-> total_risk]]
    ELSE LET node == option[k] IN
         IF state[node] # "PENDING"
         THEN EvalNodes(option, k + 1, required_resources, total_cost, total_risk)
         ELSE LET r == EvalItems(resources[node], 1, required_resources) IN
              IF r.raised # "none" THEN [raised |-> r.raised, plan |-> None]
              ELSE EvalNodes(option, k + 1, r.required_resources,
                             AddCost(total_cost, node), MaxRisk(total_risk, node))

\* a bug: the accumulator of the previous call is kept
InitialRequiredKept ==
    IF evals # <<>> /\ evals[Len(evals)].raised = "none"
    THEN evals[Len(evals)].plan.resource_usage
    ELSE EmptyDict

\* required_resources = {}
InitialRequired == EmptyDict

_evaluate_option(option) == EvalNodes(option, 1, InitialRequired, 0, 0)

\* a bug: the for loop has no except clause
CaughtNothing(raised) == FALSE

\* except ResourceConflictError: continue
Caught(raised) == raised = "ResourceConflictError"

\* a bug: every option that passes scoring replaces best_plan and is pushed
ImprovesAlways(total_cost) == TRUE

\* a bug: an option as cheap as best_plan replaces it
ImprovesOrTies(total_cost) == best_plan = None \/ total_cost <= best_plan.cost

\* if not best_plan or total_cost < best_plan.cost
Improves(total_cost) == best_plan = None \/ total_cost < best_plan.cost

\* a bug: self.resource_pool = resource_pool, the caller's own mapping
ResourcePoolAliased(written) == written

\* self.resource_pool once the caller has written its mapping: the planner
\* holds resource_pool.copy()
ResourcePoolCopied(written) == resource_pool

\* a bug: the usage of an accepted plan is taken out of self.resource_pool
PoolAfterAcceptDeducted(plan) ==
    [r \in DOMAIN resource_pool |-> resource_pool[r] - DictGet(plan.resource_usage, r)]

\* self.resource_pool after an option replaced best_plan: the search never
\* writes it
PoolAfterAccept(plan) == resource_pool

----------------------------------------------------------------------------
(* heapq on <<cost, node>> tuples *)

\* a < b on tuples: "lt", "ge", or "TypeError" when the costs are equal and
\* two different nodes have to be compared
TupleLt(a, b) ==
    IF a[1] # b[1] THEN (IF a[1] < b[1] THEN "lt" ELSE "ge")
    ELSE IF a[2] = b[2] THEN "ge" ELSE "TypeError"

Swap(h, i, j) == [h EXCEPT ![i] = h[j], ![j] = h[i]]

RECURSIVE SiftDown(_, _)
\* heapq._siftdown with startpos 0: move the item at pos (1-based) up
SiftDown(h, pos) ==
    IF pos <= 1 THEN [raised |-> "none", heap |-> h]
    ELSE LET parentpos == pos \div 2
             c == TupleLt(h[pos], h[parentpos])
         IN IF c = "TypeError" THEN [raised |-> "TypeError", heap |-> h]
            ELSE IF c = "lt" THEN SiftDown(Swap(h, pos, parentpos), parentpos)
            ELSE [raised |-> "none", heap |-> h]

RECURSIVE SiftUp(_, _)
\* heapq._siftup: bubble the smaller child up until a leaf is hit, then
\* sift the item back down into place
SiftUp(h, pos) ==
    LET childpos == 2 * pos
        rightpos == childpos + 1
    IN IF childpos > Len(h) THEN SiftDown(h, pos)
       ELSE LET c == IF rightpos <= Len(h) THEN TupleLt(h[childpos], h[rightpos]) ELSE "lt"
            IN IF c = "TypeError" THEN [raised |-> "TypeError", heap |-> h]
               ELSE LET pick == IF c = "lt" THEN childpos ELSE rightpos
                    IN SiftUp(Swap(h, pos, pick), pick)

\* heapq.heappush(heap, item)
heappush(h, item) == SiftDown(Append(h, item), Len(h) + 1)

\* a bug: the smallest entry is read but stays in the heap
heappop_peek(h) == [raised |-> "none", item |-> h[1], heap |-> h]

\* heapq.heappop(heap): [raised, item, heap]
heappop(h) ==
    LET lastelt == h[Len(h)]
        rest == SubSeq(h, 1, Len(h) - 1)
    IN IF rest = <<>> THEN [raised |-> "none", item |-> lastelt, heap |-> rest]
       ELSE LET r == SiftUp([rest EXCEPT ![1] = lastelt], 1)
            IN [raised |-> r.raised, item |-> h[1], heap |-> r.heap]

----------------------------------------------------------------------------
(* The programs that drive the classes *)

\* __main__: the add_child calls of lines 242-261, in order
MainScript ==
    << <<"root", "acquire_data">>, <<"acquire_data", "sensor">>,
       <<"acquire_data", "api">>, <<"root", "process">>,
       <<"process", "clean">>, <<"process", "transform">> >>

MainNodes == {"root", "acquire_data", "sensor", "api", "process", "clean", "transform"}

\* the classes the nodes of __main__ are built from
MainKind ==
    [n \in MainNodes |->
        CASE n \in {"root", "process"} -> "AND"
          [] n = "acquire_data" -> "OR"
          [] OTHER -> "ATOMIC"]

\* resources= of the constructors of __main__
MainResources ==
    [n \in MainNodes |->
        CASE n = "root" -> << <<"cpu", 2>> >>
          [] n = "acquire_data" -> << <<"memory", 4096>> >>
          [] n = "sensor" -> << <<"cpu", 1>>, <<"memory", 2048>> >>
          [] n = "api" -> << <<"cpu", 2>>, <<"memory", 1024>> >>
          [] n = "process" -> << <<"cpu", 4>>, <<"gpu", 1>> >>
          [] n = "clean" -> << <<"memory", 512>> >>
          [] n = "transform" -> << <<"cpu", 2>> >>]

\* cost= of the constructors of __main__
MainCost ==
    [n \in MainNodes |->
        CASE n = "sensor" -> 50 [] n = "api" -> 30
          [] n = "clean" -> 10 [] n = "transform" -> 20 [] OTHER -> 0]

\* risk= of the constructors of __main__, in tenths
MainRisk ==
    [n \in MainNodes |-> CASE n = "sensor" -> 2 [] n = "api" -> 4 [] OTHER -> 0]

\* resources of __main__; memory is 16384 there and 500 in the reduced run
MainPool(memory) ==
    [r \in {"cpu", "memory", "gpu", "quantum_secure"} |->
        CASE r = "cpu" -> 8 [] r = "memory" -> memory [] r = "gpu" -> 1
          [] r = "quantum_secure" -> 1]

MainMemory == 16384

ReducedMemory == 500

GraphNodes == {"n1", "n2", "n3"}

\* one node of each class
GraphKind == [n \in GraphNodes |-> CASE n = "n1" -> "AND" [] n = "n2" -> "OR" [] n = "n3" -> "ATOMIC"]

\* preconditions= of the constructors: a node can list the nodes built before it
GraphPreconditions ==
    { [n \in GraphNodes |-> CASE n = "n1" -> <<>> [] n = "n2" -> p2 [] n = "n3" -> p3] :
        p2 \in {<<>>, <<"n1">>},
        p3 \in {<<>>, <<"n1">>, <<"n2">>, <<"n2", "n1">>} }

NoCall == [op |-> "none", self |-> NoNode, node |-> NoNode, raised |-> "none"]

NoOutcome == [raised |-> "none", result |-> None]

InitRun ==
    /\ pc = "idle"
    /\ root = NoNode
    /\ resource_pool = EmptyDict
    /\ risk_threshold = DefaultRiskThreshold
    /\ heap = <<>>
    /\ best_plan = None
    /\ current_cost = 0
    /\ current_node = NoNode
    /\ decompositions = <<>>
    /\ oi = 1
    /\ outcome = NoOutcome
    /\ last_call = NoCall
    /\ runs = 0
    /\ first = NoOutcome
    /\ caught = 0
    /\ evals = <<>>

InitMain ==
    /\ scene = "main"
    /\ has_vr \in BOOLEAN
    /\ kind = MainKind
    /\ preconditions = [n \in MainNodes |-> <<>>]
    /\ resources = MainResources
    /\ cost = MainCost
    /\ risk = MainRisk
    /\ state = [n \in MainNodes |-> "PENDING"]
    /\ children = [n \in MainNodes |-> <<>>]
    /\ pool \in {MainPool(MainMemory), MainPool(ReducedMemory)}

InitGraph ==
    /\ scene = "graph"
    /\ has_vr \in BOOLEAN
    /\ kind = GraphKind
    /\ preconditions \in GraphPreconditions
    /\ resources = [n \in GraphNodes |-> <<>>]
    /\ cost = [n \in GraphNodes |-> 0]
    /\ risk = [n \in GraphNodes |-> 0]
    /\ state = [n \in GraphNodes |-> "PENDING"]
    /\ children = [n \in GraphNodes |-> <<>>]
    /\ pool = [r \in {"cpu"} |-> 1]

PlanNodes == {"r", "m", "x", "y"}

\* constructor arguments the nodes of the "plan" program are built with:
\* resources, cost and risk (in tenths)
Profiles ==
    { [resources |-> << <<"cpu", 1>>, <<"gpu", 0>> >>, cost |-> 1, risk |-> 2],
      [resources |-> << <<"cpu", 2>> >>, cost |-> 2, risk |-> 7],
      [resources |-> << <<"cpu", 1>> >>, cost |-> 0, risk |-> 9],
      [resources |-> << <<"cpu", 3>> >>, cost |-> 1, risk |-> 0],
      [resources |-> <<>>, cost |-> 0, risk |-> 0] }

\* the composite m is built with the defaults or with a cost of its own
CompositeProfiles ==
    { [resources |-> <<>>, cost |-> 0, risk |-> 0],
      [resources |-> << <<"cpu", 1>> >>, cost |-> 1, risk |-> 2] }

\* the edges the "plan" program adds: r and m are composites, x and y leaves
PlanEdges == { <<"r", "m">>, <<"r", "x">>, <<"r", "y">>, <<"m", "x">>, <<"m", "y">> }

InitPlan ==
    /\ scene = "plan"
    /\ has_vr = TRUE
    /\ kind \in { [n \in PlanNodes |-> CASE n = "r" -> kr [] n = "m" -> km [] OTHER -> "ATOMIC"] :
                    kr \in {"AND", "OR"}, km \in {"AND", "OR"} }
    /\ \E pm \in CompositeProfiles, px \in Profiles, py \in Profiles :
          LET prof == [n \in PlanNodes |->
                          CASE n = "r" -> [resources |-> <<>>, cost |-> 0, risk |-> 0]
                            [] n = "m" -> pm [] n = "x" -> px [] n = "y" -> py]
          IN /\ resources = [n \in PlanNodes |-> prof[n].resources]
             /\ cost = [n \in PlanNodes |-> prof[n].cost]
             /\ risk = [n \in PlanNodes |-> prof[n].risk]
    /\ preconditions = [n \in PlanNodes |-> <<>>]
    /\ state = [n \in PlanNodes |-> "PENDING"]
    /\ children = [n \in PlanNodes |-> <<>>]
    /\ pool = [r \in {"cpu"} |-> 2]

EvalNodeSet == {"x", "y"}

\* constructor arguments of the nodes that are scored directly; the pool
\* names cpu only
EvalProfiles ==
    { [resources |-> <<>>, cost |-> 0, risk |-> 0],
      [resources |-> << <<"cpu", 1>> >>, cost |-> 1, risk |-> 2],
      [resources |-> << <<"cpu", 2>> >>, cost |-> 2, risk |-> 9],
      [resources |-> << <<"cpu", 3>> >>, cost |-> 1, risk |-> 0],
      [resources |-> << <<"gpu", 1>> >>, cost |-> 1, risk |-> 0],
      [resources |-> << <<"gpu", 0>>, <<"cpu", 1>> >>, cost |-> 1, risk |-> 0],
      [resources |-> << <<"cpu", 3>>, <<"gpu", 1>> >>, cost |-> 1, risk |-> 0],
      [resources |-> << <<"gpu", 1>>, <<"cpu", 3>> >>, cost |-> 1, risk |-> 0] }

\* the lists of nodes handed to _evaluate_option
EvalOptions == { <<a>> : a \in EvalNodeSet } \cup { <<a, b>> : a \in EvalNodeSet, b \in EvalNodeSet }

InitEval ==
    /\ scene = "eval"
    /\ has_vr = FALSE
    /\ kind = [n \in EvalNodeSet |-> "ATOMIC"]
    /\ \E px \in EvalProfiles, py \in EvalProfiles :
          LET prof == [n \in EvalNodeSet |-> IF n = "x" THEN px ELSE py]
          IN /\ resources = [n \in EvalNodeSet |-> prof[n].resources]
             /\ cost = [n \in EvalNodeSet |-> prof[n].cost]
             /\ risk = [n \in EvalNodeSet |-> prof[n].risk]
    /\ preconditions = [n \in EvalNodeSet |-> <<>>]
    /\ state = [n \in EvalNodeSet |-> "PENDING"]
    /\ children = [n \in EvalNodeSet |-> <<>>]
    /\ pool = [r \in {"cpu"} |-> 2]

Init == (InitMain \/ InitGraph \/ InitPlan \/ InitEval) /\ InitRun

\* the calls the driving program makes
CallAllowed(self, node) ==
    IF scene = "main"
    THEN Edges < Len(MainScript) /\ MainScript[Edges + 1] = <<self, node>>
    ELSE /\ Edges < MaxEdges
         /\ scene = "plan" => <<self, node>> \in PlanEdges
         /\ scene # "eval"

\* the roots the driving program plans from
RootAllowed(r) ==
    CASE scene = "main" -> Edges = Len(MainScript) /\ r = "root"
      [] scene = "plan" -> r = "r"
      [] scene = "eval" -> FALSE
      [] OTHER -> TRUE

----------------------------------------------------------------------------
(* Actions *)

\* self.add_child(node)
AddChild(self, node) ==
    /\ pc = "idle"
    /\ CallAllowed(self, node)
    /\ IF AddChildRaises(self, node)
       THEN /\ last_call' = [op |-> "add_child", self |-> self, node |-> node,
                             raised |-> "CircularDependencyError"]
            /\ UNCHANGED children
       ELSE /\ children' = [children EXCEPT ![self] = Append(@, node)]
            /\ last_call' = [op |-> "add_child", self |-> self, node |-> node,
                             raised |-> "none"]
    /\ UNCHANGED <<nodeVars, runVars>>

\* generate_plan up to the first heappush: validate_dag, then the locals of
\* _ao_star_search
generate_plan(r) ==
    /\ current_cost' = 0
    /\ current_node' = NoNode
    /\ decompositions' = <<>>
    /\ oi' = 1
    /\ caught' = 0
    /\ IF validate_dag(r)
       THEN /\ last_call' = [op |-> "validate_dag", self |-> r, node |-> r,
                             raised |-> "CircularDependencyError"]
            /\ outcome' = [raised |-> "CircularDependencyError", result |-> None]
            /\ pc' = "done"
            /\ heap' = <<>>
            /\ best_plan' = None
       ELSE /\ last_call' = [op |-> "validate_dag", self |-> r, node |-> r,
                             raised |-> "none"]
            /\ heap' = heappush(<<>>, <<0, r>>).heap
            /\ best_plan' = None
            /\ pc' = "loop"
            /\ outcome' = NoOutcome

\* planner = PlanningGraph(r, pool); planner.generate_plan()
GeneratePlan(r) ==
    /\ pc = "idle"
    /\ RootAllowed(r)
    /\ root' = r
    /\ resource_pool' = pool
    /\ risk_threshold' = DefaultRiskThreshold
    /\ runs' = 1
    /\ generate_plan(r)
    /\ UNCHANGED <<nodeVars, children, first, evals>>

\* planner.generate_plan() once more, on the same planner
GeneratePlanAgain ==
    /\ pc = "done"
    /\ runs = 1
    /\ runs' = 2
    /\ first' = outcome
    /\ generate_plan(root)
    /\ UNCHANGED <<nodeVars, children, root, resource_pool, risk_threshold, evals>>

\* planner = PlanningGraph(r, pool), for the direct calls of _evaluate_option
Construct(r) ==
    /\ pc = "idle"
    /\ scene = "eval"
    /\ root = NoNode
    /\ root' = r
    /\ resource_pool' = pool
    /\ risk_threshold' = DefaultRiskThreshold
    /\ UNCHANGED <<nodeVars, children, last_call, pc, heap, best_plan, current_cost,
                   current_node, decompositions, oi, outcome, runs, first, caught, evals>>

\* the caller clears the capacities of its mapping, after the planner was
\* constructed from it and before the first call on the planner
ChangePool ==
    /\ pc = "idle"
    /\ scene = "eval"
    /\ root # NoNode
    /\ evals = <<>>
    /\ pool = resource_pool
    /\ LET written == [r \in DOMAIN pool |-> 0]
       IN /\ pool' = written
          /\ resource_pool' = ResourcePoolCopied(written)
    /\ UNCHANGED <<scene, has_vr, kind, preconditions, resources, cost, risk, state,
                   children, last_call, pc, root, risk_threshold, heap, best_plan,
                   current_cost, current_node, decompositions, oi, outcome, runs, first,
                   caught, evals>>

\* planner._evaluate_option(option)
EvaluateOption(option) ==
    /\ pc = "idle"
    /\ scene = "eval"
    /\ root # NoNode
    /\ Len(evals) < MaxEvals
    /\ LET e == _evaluate_option(option)
       IN evals' = Append(evals, [option |-> option, raised |-> e.raised, plan |-> e.plan])
    /\ UNCHANGED <<nodeVars, children, last_call, pc, root, resource_pool, risk_threshold,
                   heap, best_plan, current_cost, current_node, decompositions, oi,
                   outcome, runs, first, caught>>

\* while heap: heappop; if current_node.is_atomic(): continue
PopAtomic ==
    /\ pc = "loop"
    /\ heap # <<>>
    /\ LET p == heappop(heap) IN
       /\ is_atomic(p.item[2])
       /\ current_cost' = p.item[1]
       /\ current_node' = p.item[2]
       /\ IF p.raised # "none"
          THEN /\ outcome' = [raised |-> p.raised, result |-> None]
               /\ pc' = "done"
               /\ UNCHANGED heap
          ELSE /\ heap' = p.heap
               /\ UNCHANGED <<outcome, pc>>
    /\ UNCHANGED <<nodeVars, children, last_call, root, resource_pool, risk_threshold,
                   best_plan, decompositions, oi, runs, first, caught, evals>>

\* while heap: heappop; decompositions = current_node.decompose(self.resource_pool)
Expand ==
    /\ pc = "loop"
    /\ heap # <<>>
    /\ LET p == heappop(heap)
           node == p.item[2]
       IN
       /\ ~is_atomic(node)
       /\ current_cost' = p.item[1]
       /\ current_node' = node
       /\ IF p.raised # "none"
          THEN /\ outcome' = [raised |-> p.raised, result |-> None]
               /\ pc' = "done"
               /\ UNCHANGED <<heap, decompositions, oi, last_call>>
          ELSE /\ heap' = p.heap
               /\ last_call' = [op |-> "decompose", self |-> node, node |-> node,
                                raised |-> DecomposeRaises(node)]
               /\ IF DecomposeRaises(node) # "none"
                  THEN /\ outcome' = [raised |-> DecomposeRaises(node), result |-> None]
                       /\ pc' = "done"
                       /\ UNCHANGED <<decompositions, oi>>
                  ELSE /\ decompositions' = decompose(node, resource_pool)
                       /\ oi' = 1
                       /\ pc' = IF decompositions' = <<>> THEN "loop" ELSE "options"
                       /\ UNCHANGED outcome
    /\ UNCHANGED <<nodeVars, children, root, resource_pool, risk_threshold, best_plan,
                   runs, first, caught, evals>>

\* one iteration of: for option in decompositions
Score ==
    /\ pc = "options"
    /\ LET option == decompositions[oi]
           e == _evaluate_option(option)
           total_cost == current_cost + e.plan.cost
           push == heappush(heap, <<total_cost, option[Len(option)]>>)
           next == IF oi + 1 > Len(decompositions) THEN "loop" ELSE "options"
       IN
       CASE Caught(e.raised) ->
                /\ pc' = next
                /\ caught' = caught + 1
                /\ UNCHANGED <<best_plan, heap, outcome, resource_pool>>
         [] e.raised # "none" /\ ~Caught(e.raised) ->
                /\ outcome' = [raised |-> e.raised, result |-> None]
                /\ pc' = "done"
                /\ UNCHANGED <<best_plan, heap, resource_pool, caught>>
         [] e.raised = "none" /\ e.plan.risk_factor > risk_threshold ->
                /\ pc' = next
                /\ UNCHANGED <<best_plan, heap, outcome, resource_pool, caught>>
         [] e.raised = "none" /\ e.plan.risk_factor <= risk_threshold ->
                IF Improves(total_cost)
                THEN /\ best_plan' = [e.plan EXCEPT !.cost = total_cost]
                     /\ resource_pool' = PoolAfterAccept(e.plan)
                     /\ UNCHANGED caught
                     /\ IF push.raised # "none"
                        THEN /\ outcome' = [raised |-> push.raised, result |-> None]
                             /\ pc' = "done"
                             /\ UNCHANGED heap
                        ELSE /\ heap' = push.heap
                             /\ pc' = next
                             /\ UNCHANGED outcome
                ELSE /\ pc' = next
                     /\ UNCHANGED <<best_plan, heap, outcome, resource_pool, caught>>
    /\ oi' = oi + 1
    /\ UNCHANGED <<nodeVars, children, last_call, root, risk_threshold,
                   current_cost, current_node, decompositions, runs, first, evals>>

\* the heap is empty: raise PlanException or return best_plan
Finish ==
    /\ pc = "loop"
    /\ heap = <<>>
    /\ outcome' = IF best_plan = None
                  THEN [raised |-> "PlanException", result |-> None]
                  ELSE [raised |-> "none", result |-> best_plan]
    /\ pc' = "done"
    /\ UNCHANGED <<nodeVars, children, last_call, root, resource_pool, risk_threshold,
                   heap, best_plan, current_cost, current_node, decompositions, oi,
                   runs, first, caught, evals>>

Next ==
    \/ \E self \in Nodes, node \in Nodes : AddChild(self, node)
    \/ \E r \in Nodes : GeneratePlan(r)
    \/ GeneratePlanAgain
    \/ \E r \in Nodes : Construct(r)
    \/ ChangePool
    \/ \E option \in EvalOptions : EvaluateOption(option)
    \/ PopAtomic
    \/ Expand
    \/ Score
    \/ Finish

Spec == Init /\ [][Next]_vars

\* a run that was started is carried on: the while loop of _ao_star_search and
\* the return of generate_plan are steps of one call
SpecLive == Init /\ [][Next]_vars /\ WF_vars(PopAtomic \/ Expand \/ Score \/ Finish)

----------------------------------------------------------------------------
(* Definitions the properties are stated with *)

RECURSIVE ReachLoop(_, _)
ReachLoop(frontier, seen) ==
    IF frontier = {} THEN seen
    ELSE LET next == UNION { {children[n][i] : i \in 1..Len(children[n])} : n \in frontier }
         IN ReachLoop(next \ seen, seen \cup next)

\* the nodes reachable from n through one or more children edges
Descendants(n) == ReachLoop({n}, {})

\* adding the edge self -> node would make some node its own ancestor
WouldCycle(self, node) == node = self \/ self \in Descendants(node)

\* every required quantity of c is within the capacity of the planner's pool
Feasible(c) ==
    \A i \in 1..Len(resources[c]) :
        resources[c][i][2] <= DictGet(resource_pool, resources[c][i][1])

AllNames == UNION { {resources[n][i][1] : i \in 1..Len(resources[n])} : n \in Nodes }

\* resources[r] of node n, 0 when the node does not name r
Needs(n, r) ==
    IF \E i \in 1..Len(resources[n]) : resources[n][i][1] = r
    THEN resources[n][CHOOSE i \in 1..Len(resources[n]) : resources[n][i][1] = r][2]
    ELSE 0

RECURSIVE SumCost(_)
SumCost(seq) == IF seq = <<>> THEN 0 ELSE cost[seq[1]] + SumCost(Tail(seq))

RECURSIVE SumNeeds(_, _)
SumNeeds(seq, r) == IF seq = <<>> THEN 0 ELSE Needs(seq[1], r) + SumNeeds(Tail(seq), r)

Returned == pc = "done" /\ outcome.raised = "none"

Decomposed(k) ==
    /\ last_call.op = "decompose"
    /\ kind[last_call.self] = k
    /\ children[last_call.self] # <<>>

ScenarioA == scene = "main" /\ pool["memory"] = MainMemory

ScenarioB == scene = "main" /\ pool["memory"] = ReducedMemory

----------------------------------------------------------------------------
(* Properties *)

\* C1: on a graph built with add_child calls only, validate_dag never raises
\* CircularDependencyError
C1_GuardsAgree ==
    last_call.op = "validate_dag" => last_call.raised = "none"

\* C2: an add_child call whose edge would make a node its own ancestor in the
\* children graph raises CircularDependencyError and leaves the children as
\* they were
C2_CycleEdgeRefused ==
    [][\A self \in Nodes, node \in Nodes :
          ( /\ pc = "idle" /\ pc' = "idle"
            /\ last_call'.op = "add_child"
            /\ last_call'.self = self /\ last_call'.node = node
            /\ WouldCycle(self, node) )
          => (last_call'.raised = "CircularDependencyError" /\ children' = children)]_vars

\* C3: decompose of an AND node with children returns the one option of all
\* its children when each is feasible, and no option when any is infeasible
C3_AndAllOrNothing ==
    Decomposed("AND") =>
        /\ last_call.raised = "none"
        /\ decompositions =
              IF \A i \in 1..Len(children[last_call.self]) : Feasible(children[last_call.self][i])
              THEN <<children[last_call.self]>>
              ELSE <<>>

\* C4: decompose of an OR node returns one singleton option per feasible
\* child, in child order, and raises nothing
C4_OrOnePerFeasible ==
    Decomposed("OR") =>
        /\ last_call.raised = "none"
        /\ LET feasible == SelectSeq(children[last_call.self], LAMBDA c : Feasible(c))
           IN decompositions = [i \in 1..Len(feasible) |-> <<feasible[i]>>]

\* C5: generate_plan returns a result, raises CircularDependencyError or raises
\* PlanException, and nothing else
C5_ThreeOutcomes ==
    pc = "done" => outcome.raised \in {"none", "CircularDependencyError", "PlanException"}

\* C6: scenario A returns the plan of api, clean and transform at cost 60
C6_ScenarioA ==
    (ScenarioA /\ pc = "done") =>
        /\ outcome.raised = "none"
        /\ {outcome.result.sequence[i] : i \in 1..Len(outcome.result.sequence)}
              = {"api", "clean", "transform"}
        /\ outcome.result.cost = 60

\* C7: the cost of a returned result is the sum of the costs of the nodes of
\* its sequence
C7_CostIsSum ==
    Returned => outcome.result.cost = SumCost(outcome.result.sequence)

\* a result of two nodes or more is returned at a cost above 0
C7_Witness ==
    /\ Returned
    /\ Len(outcome.result.sequence) >= 2
    /\ outcome.result.sequence[1] # outcome.result.sequence[2]
    /\ cost[outcome.result.sequence[1]] > 0
    /\ outcome.result.cost > cost[outcome.result.sequence[1]]

\* C8: scenario B ends with the generic PlanException
C8_ScenarioB ==
    (ScenarioB /\ pc = "done") => outcome.raised = "PlanException"

\* C9: best_plan never holds a node whose risk is above the ceiling, and its
\* risk_factor is within the ceiling
C9_RiskWithinCeiling ==
    best_plan # None =>
        /\ best_plan.risk_factor <= risk_threshold
        /\ \A i \in 1..Len(best_plan.sequence) : risk[best_plan.sequence[i]] <= risk_threshold

\* a result is returned although a feasible child of the OR root costs less:
\* that child's risk is above the ceiling
C9_Witness ==
    /\ Returned
    /\ kind[root] = "OR"
    /\ \E i \in 1..Len(children[root]) :
          /\ Feasible(children[root][i])
          /\ risk[children[root][i]] > risk_threshold
          /\ cost[children[root][i]] < outcome.result.cost

\* C10: resource_usage of a returned result is, per resource, the sum over the
\* nodes of its sequence, and within the pool's capacity (0 for a resource the
\* pool does not name)
C10_UsageIsSumWithinPool ==
    Returned =>
        /\ \A r \in AllNames \cup DOMAIN outcome.result.resource_usage :
              /\ DictGet(outcome.result.resource_usage, r) = SumNeeds(outcome.result.sequence, r)
              /\ DictGet(outcome.result.resource_usage, r) <= DictGet(resource_pool, r)

\* a returned result sums one resource over two nodes, and holds a resource
\* the pool does not name
C10_Witness ==
    /\ Returned
    /\ Len(outcome.result.sequence) >= 2
    /\ outcome.result.sequence[1] # outcome.result.sequence[2]
    /\ \E r \in DOMAIN outcome.result.resource_usage :
          /\ outcome.result.resource_usage[r] > 0
          /\ \A i \in 1..2 : Needs(outcome.result.sequence[i], r) > 0
    /\ \E r \in DOMAIN outcome.result.resource_usage : r \notin DOMAIN resource_pool

\* C11: a second generate_plan call on the same planner, with the tree, the
\* pool and the ceiling untouched, ends as the first call did: the same error,
\* or an equal result
C11_SameOutcomeTwice ==
    (pc = "done" /\ runs = 2) => outcome = first

\* the second call returned a result that holds resources of the pool
C11_Witness ==
    /\ Returned
    /\ runs = 2
    /\ first.raised = "none"
    /\ \E r \in DOMAIN resource_pool : DictGet(outcome.result.resource_usage, r) > 0

\* C12: a direct _evaluate_option call changes neither the pool, nor an
\* attribute of a node, nor the children lists, and it ends as every earlier
\* call on the same option did: the same error, or an identical result
C12_EvaluateOptionPure ==
    [][evals' # evals =>
          /\ UNCHANGED <<kind, preconditions, resources, cost, risk, state, children,
                         pool, resource_pool>>
          /\ LET n == Len(evals')
             IN \A i \in 1..n :
                   evals'[i].option = evals'[n].option =>
                       /\ evals'[i].raised = evals'[n].raised
                       /\ evals'[n].raised = "none" => evals'[i].plan = evals'[n].plan]_vars

\* one option of two nodes was scored twice, and held a resource of the pool
C12_Witness ==
    /\ Len(evals) = 2
    /\ evals[1].option = evals[2].option
    /\ Len(evals[2].option) = 2
    /\ evals[2].raised = "none"
    /\ DictGet(evals[2].plan.resource_usage, "cpu") > 0

\* a cycle of children edges is reachable from r: r or a node below r is its
\* own descendant
CycleReachable(r) ==
    \E n \in {r} \cup Descendants(r) : n \in Descendants(n)

\* C13: validate_dag raises CircularDependencyError for every graph that has a
\* cycle of children edges reachable from the node it is called on
C13_EveryCycleRaises ==
    (last_call.op = "validate_dag" /\ CycleReachable(last_call.self)) =>
        last_call.raised = "CircularDependencyError"

\* validate_dag raised on a cycle that does not pass through the node it was
\* called on, and a node of the cycle is entered twice from outside the cycle
C13_Witness ==
    /\ last_call.op = "validate_dag"
    /\ last_call.raised = "CircularDependencyError"
    /\ last_call.self \notin Descendants(last_call.self)
    /\ \E n \in Descendants(last_call.self) :
          /\ n \in Descendants(n)
          /\ Cardinality({ e \in ({last_call.self} \cup Descendants(last_call.self)) \X (1..MaxEdges + 1) :
                             /\ e[1] \notin Descendants(e[1])
                             /\ e[2] <= Len(children[e[1]])
                             /\ children[e[1]][e[2]] = n }) >= 2

\* C14: when a cycle is reachable from the root, generate_plan ends with
\* CircularDependencyError before any step of the search: nothing was pushed
\* or popped, no node was decomposed, no option was scored
C14_CycleBeforeSearch ==
    (runs >= 1 /\ CycleReachable(root)) =>
        /\ pc = "done"
        /\ outcome = [raised |-> "CircularDependencyError", result |-> None]
        /\ last_call.op = "validate_dag"
        /\ heap = <<>>
        /\ current_node = NoNode
        /\ decompositions = <<>>
        /\ best_plan = None
        /\ caught = 0

\* generate_plan was called on a root that is not on the cycle below it
C14_Witness ==
    /\ runs >= 1
    /\ CycleReachable(root)
    /\ root \notin Descendants(root)
    /\ outcome.raised = "CircularDependencyError"

\* C15: on a graph without a reachable cycle, generate_plan raises
\* PlanException exactly when the queue ran empty with no option accepted; an
\* accepted option is returned as the result, and an error carries no result
C15_PlanExceptionIffNothingAccepted ==
    (pc = "done" /\ ~CycleReachable(root)) =>
        /\ (outcome.raised = "PlanException") <=> (heap = <<>> /\ best_plan = None)
        /\ best_plan # None => outcome = [raised |-> "none", result |-> best_plan]
        /\ outcome.raised # "none" => outcome.result = None

\* C16: a ResourceConflictError raised while an option is scored is caught in
\* the for loop: generate_plan never ends with it, and the step that catches
\* it goes on to the next option or the next queue entry with the queue, the
\* best plan and the outcome as they were
C16_ConflictCaughtInLoop ==
    /\ [](outcome.raised # "ResourceConflictError")
    /\ [][caught' = caught + 1 =>
             /\ pc' = IF oi < Len(decompositions) THEN "options" ELSE "loop"
             /\ oi' = oi + 1
             /\ UNCHANGED <<heap, best_plan, outcome, decompositions, current_node>>]_vars

\* a result is returned by a run that caught a ResourceConflictError
C16_Witness ==
    /\ Returned
    /\ caught > 0

\* C17: a direct _evaluate_option call fails exactly when the sum of a
\* resource over the option exceeds the pool's capacity (0 for a resource the
\* pool does not name), and then with ResourceConflictError, never with
\* another error
C17_OnlyResourceConflictError ==
    \A i \in 1..Len(evals) :
        /\ evals[i].raised \in {"none", "ResourceConflictError"}
        /\ (evals[i].raised = "ResourceConflictError") <=>
               \E r \in AllNames : SumNeeds(evals[i].option, r) > DictGet(resource_pool, r)

\* C18: whatever add_child calls were made, the children of every AtomicNode
\* are empty
C18_LeafHasNoChildren ==
    \A n \in Nodes : is_atomic(n) => children[n] = <<>>

\* C19: no step of a generate_plan call changes the caller's data: the
\* children, preconditions, resources, cost, risk and state of every node and
\* the pool stay as they were, every state stays PENDING, and the planner's
\* copy of the pool stays equal to the caller's pool
C19_RunLeavesCallerDataUnchanged ==
    [][pc' # "idle" =>
          /\ UNCHANGED <<kind, preconditions, resources, cost, risk, state, children, pool>>
          /\ \A n \in Nodes : state'[n] = "PENDING"
          /\ resource_pool' = pool']_vars

\* a first run returned a result that holds resources of the pool
C19_Witness ==
    /\ Returned
    /\ runs = 1
    /\ \E r \in DOMAIN pool : DictGet(outcome.result.resource_usage, r) > 0
    /\ \A i \in 1..Len(outcome.result.sequence) : state[outcome.result.sequence[i]] = "PENDING"

\* C20: every generate_plan call ends: a run that has entered the search
\* reaches its return or its raise
C20_Terminates ==
    (pc \in {"loop", "options"}) ~> (pc = "done")

\* a second run ended after the search expanded two composite nodes
C20_Witness ==
    /\ pc = "done"
    /\ runs = 2
    /\ outcome.raised \in {"none", "PlanException"}
    /\ current_node # NoNode
    /\ current_node # root
    /\ ~is_atomic(current_node)

\* the largest risk among the nodes of seq, 0 for no node
MaxRiskOf(seq) ==
    LET rs == {risk[seq[i]] : i \in 1..Len(seq)} \cup {0}
    IN CHOOSE m \in rs : \A v \in rs : v <= m

\* C21: the risk_factor of a returned result is the maximum of the risks of
\* the nodes of its sequence
C21_RiskIsMax ==
    Returned => outcome.result.risk_factor = MaxRiskOf(outcome.result.sequence)

\* a result of two distinct nodes is returned, both with a risk above 0: the
\* sum of the risks is above their maximum
C21_Witness ==
    /\ Returned
    /\ Len(outcome.result.sequence) = 2
    /\ outcome.result.sequence[1] # outcome.result.sequence[2]
    /\ risk[outcome.result.sequence[1]] > 0
    /\ risk[outcome.result.sequence[2]] > 0

RECURSIVE PreLoop(_, _)
PreLoop(frontier, seen) ==
    IF frontier = {} THEN seen
    ELSE LET next == UNION { {preconditions[n][i] : i \in 1..Len(preconditions[n])} : n \in frontier }
         IN PreLoop(next \ seen, seen \cup next)

\* the nodes reachable from n through one or more preconditions references
PreClosure(n) == PreLoop({n}, {})

\* C22: add_child(parent, child) raises CircularDependencyError exactly when
\* child is in the transitive closure of parent's preconditions, and then
\* leaves the children as they were; otherwise it appends child at the end of
\* parent's children; it never changes preconditions
C22_AddChildGuardAndAppend ==
    [][(pc = "idle" /\ pc' = "idle" /\ scene # "eval") =>
          LET self == last_call'.self
              node == last_call'.node
          IN /\ last_call'.op = "add_child"
             /\ (last_call'.raised = "CircularDependencyError") <=> (node \in PreClosure(self))
             /\ last_call'.raised = "CircularDependencyError" => children' = children
             /\ last_call'.raised # "CircularDependencyError" =>
                    children' = [children EXCEPT ![self] = children[self] \o <<node>>]
             /\ preconditions' = preconditions]_vars

\* add_child refused a node that is a precondition of a precondition of the
\* parent, after an earlier call on the same parent had appended a child
C22_Witness ==
    /\ last_call.op = "add_child"
    /\ last_call.raised = "CircularDependencyError"
    /\ \A i \in 1..Len(preconditions[last_call.self]) : preconditions[last_call.self][i] # last_call.node
    /\ children[last_call.self] # <<>>

\* C23: validate_dag does not raise on a graph without a reachable cycle, a
\* node shared by two parents included
C23_AcyclicNeverRaises ==
    (last_call.op = "validate_dag" /\ ~CycleReachable(last_call.self)) =>
        last_call.raised = "none"

\* validate_dag passed a graph in which a node below the start node is a child
\* of two different nodes
C23_Witness ==
    /\ last_call.op = "validate_dag"
    /\ last_call.raised = "none"
    /\ LET below == {last_call.self} \cup Descendants(last_call.self)
       IN \E n \in below, p \in below, q \in below :
             /\ p # q
             /\ \E i \in 1..Len(children[p]) : children[p][i] = n
             /\ \E i \in 1..Len(children[q]) : children[q][i] = n

\* the option scored by the step passes: no error, and risk within the ceiling
Passes(option) ==
    LET e == _evaluate_option(option)
    IN e.raised = "none" /\ e.plan.risk_factor <= risk_threshold

\* C24: every option that passes scoring has its last node pushed into the
\* queue at priority current_cost + option cost, whether or not it replaced
\* best_plan
C24_PassedOptionPushed ==
    [][(pc = "options" /\ oi' = oi + 1 /\ Passes(decompositions[oi])) =>
          LET option == decompositions[oi]
              total_cost == current_cost + _evaluate_option(option).plan.cost
          IN /\ Len(heap') = Len(heap) + 1
             /\ \E i \in 1..Len(heap') : heap'[i] = <<total_cost, option[Len(option)]>>]_vars

\* C25: during a run best_plan changes only in a step that scores an option,
\* and only when it was unset or the new cost is strictly lower: its cost
\* never increases, and an option of equal cost leaves it as it was
C25_BestPlanOnlyImproves ==
    [][(pc \in {"loop", "options"} /\ best_plan' # best_plan) =>
          /\ pc = "options"
          /\ best_plan' # None
          /\ best_plan = None \/ best_plan'.cost < best_plan.cost]_vars

\* the first option of an expansion is best_plan, and a different second
\* option that passed scoring at the same cost did not replace it
C25_Witness ==
    /\ pc \in {"loop", "options"}
    /\ oi >= 3
    /\ best_plan # None
    /\ best_plan.sequence = decompositions[1]
    /\ decompositions[2] # decompositions[1]
    /\ Passes(decompositions[2])
    /\ current_cost + _evaluate_option(decompositions[2]).plan.cost = best_plan.cost

\* C26: no two entries of the queue have the same cost, so that no push and
\* no pop compares two task nodes, and no run ends with the TypeError of such
\* a comparison
C26_QueueOrderTotal ==
    /\ \A i \in 1..Len(heap), j \in 1..Len(heap) : i # j => heap[i][1] # heap[j][1]
    /\ outcome.raised # "TypeError"

\* the queue holds two entries
C26_Witness ==
    /\ pc \in {"loop", "options"}
    /\ Len(heap) >= 2
    /\ heap[1][2] # heap[2][2]

\* C27: a step that pops a leaf neither decomposes nor scores and leaves
\* best_plan as it was, and a run whose root is a leaf, or a composite without
\* children, ends with PlanException
C27_LeafDiscarded ==
    /\ [][(pc = "loop" /\ heap # <<>> /\ is_atomic(heap[1][2])) =>
             /\ pc' = "loop"
             /\ current_node' = heap[1][2]
             /\ Len(heap') = Len(heap) - 1
             /\ UNCHANGED <<best_plan, decompositions, oi, caught, last_call, outcome>>]_vars
    /\ []((pc = "done" /\ (is_atomic(root) \/ children[root] = <<>>)) =>
             outcome.raised = "PlanException")

\* some resource, summed over the option, is above the planner's pool
ExceedsPool(option) ==
    \E r \in AllNames : SumNeeds(option, r) > DictGet(resource_pool, r)

\* C28: the pool the planner holds stays the one given at construction: no
\* step of a run and no later write of the caller to its own mapping changes
\* it, and a scoring step ends in the caught ResourceConflictError exactly
\* when the option, summed on its own, exceeds that pool
C28_FullPoolEveryStep ==
    /\ [][root # NoNode => resource_pool' = resource_pool]_vars
    /\ [][(pc = "options" /\ oi' = oi + 1 /\ outcome' = outcome) =>
             ((caught' = caught + 1) <=> ExceedsPool(decompositions[oi]))]_vars
    /\ [](\A i \in 1..Len(evals) :
             evals[i].raised = "none" =>
                 \A r \in DOMAIN evals[i].plan.resource_usage :
                     evals[i].plan.resource_usage[r] <= DictGet(resource_pool, r))

\* after the caller cleared its mapping, a direct call accepted an option that
\* needs what the planner's pool holds
C28_Witness ==
    /\ evals # <<>>
    /\ evals[Len(evals)].raised = "none"
    /\ \E r \in DOMAIN pool :
          pool[r] < DictGet(evals[Len(evals)].plan.resource_usage, r)

\* C29: best_plan is set, and the queue is pushed to, only while the root is
\* being expanded, and the sequence of a returned result holds children of
\* the root only
C29_BestOnlyAtRoot ==
    /\ [][(pc \in {"loop", "options"} /\ (best_plan' # best_plan \/ Len(heap') > Len(heap))) =>
             (pc = "options" /\ current_node = root)]_vars
    /\ [](Returned =>
             \A i \in 1..Len(outcome.result.sequence) :
                 \E j \in 1..Len(children[root]) : children[root][j] = outcome.result.sequence[i])

\* a result is returned by a run whose last expansion was of a composite
\* below the root, with an option that passed scoring
C29_Witness ==
    /\ Returned
    /\ current_node # root
    /\ ~is_atomic(current_node)
    /\ decompositions # <<>>
    /\ Passes(decompositions[1])
    /\ cost[decompositions[1][1]] > 0

\* the positions in the children of an OR root whose child is resource-feasible
\* on its own and has a risk within the ceiling
Qualifying ==
    { i \in 1..Len(children[root]) :
        Feasible(children[root][i]) /\ risk[children[root][i]] <= risk_threshold }

\* C30: a run from an OR root without a cycle below it returns the one child
\* of lowest cost among the qualifying children, the earliest of them on equal
\* cost, and ends with PlanException when no child qualifies
C30_OrRootPicksCheapest ==
    (pc = "done" /\ kind[root] = "OR" /\ ~CycleReachable(root)) =>
        IF Qualifying = {}
        THEN outcome.raised = "PlanException"
        ELSE LET b == CHOOSE i \in Qualifying :
                          \A j \in Qualifying :
                              \/ cost[children[root][i]] < cost[children[root][j]]
                              \/ cost[children[root][i]] = cost[children[root][j]] /\ i <= j
             IN /\ outcome.raised = "none"
                /\ outcome.result.sequence = <<children[root][b]>>
                /\ outcome.result.cost = cost[children[root][b]]

====
